---- MODULE Spec2Model ----
(***************************************************************************)
(* A model of the distributed flow-invocation and concurrent-dispatch      *)
(* layer of aiflows:                                                       *)
(*   - FlowMultiThreadedAPILauncher.predict  (flow_API_launcher.py),       *)
(*   - FlowFuture and push_to_flow           (coflows_utils.py),           *)
(*   - the simple-invoke protocol handlers   (colink_protocol_utils.py).   *)
(* Each of the three parts has its own specification (SpecLauncher,        *)
(* SpecPush, SpecProtocol) over the shared variables; a part's actions     *)
(* leave the other parts' variables unchanged.  SpecLauncherFair and       *)
(* SpecProtocolFair are SpecLauncher and SpecProtocol under weak fairness, *)
(* for the termination properties.                                         *)
(***************************************************************************)
EXTENDS Integers, Sequences, FiniteSets, TLC

(* ------------------------------ bounds -------------------------------- *)
\* number of resource slots (flows / output files / ids in the pool)
NumSlots == 1
\* largest n_independent_samples tried
MaxSamples == 2
\* largest n_batch_retries tried
MaxRetries == 2
\* number of tasks of the simple-invoke protocol
NumTasks == 2
\* how many times the substrate may start the handlers of one task
MaxRuns == 2
\* number of invocations submitted through push_to_flow
NumPushes == 2

(* ------------------------------ values -------------------------------- *)
\* Python's None
None == <<>>

\* the concurrent predict calls (one sample each): one more than there are
\* slots, so that a call has to wait for a slot
NumCalls == NumSlots + 1
Calls == 1..NumCalls
\* resource ids index self.flows, so they are 0-based
Slots == 0..(NumSlots - 1)
\* _resource_id outside predict, where the name is not bound: a value that is
\* no slot id
NoSlot == NumSlots

\* str(e) of the exception raised by attempt att of repetition rep
StrE(rep, att) == <<rep, att>>
\* output_message.data of the flow's answer in repetition rep
OutputData(rep) == [output_data |-> rep]

VARIABLES
    \* ---- FlowMultiThreadedAPILauncher: configuration
    n_independent_samples,
    fault_tolerant_mode,
    n_batch_retries,
    \* ---- FlowMultiThreadedAPILauncher: shared state
    resource_IDs,           \* self._resource_IDs, the queue of free slot ids
    flow_dirty,             \* per slot: the flow holds state since its last reset
    flow_state,             \* per slot: whose invocations left that state: <<call, repetition>>
    output_files,           \* per slot: the records written to its output file
    \* ---- predict: one activation per call
    pc,
    resource_id,            \* _resource_id
    sample_idx,             \* _sample_idx
    attempt_idx,            \* _attempt_idx
    error,                  \* _error
    inference_outputs,
    human_readable_outputs,
    hist,                   \* history of the call: what it did, in order
    \* ---- the coordination substrate as push_to_flow and FlowFuture use it
    storage,                \* the key-value entries of cl's identity
    tasks,                  \* the tasks run_task has spawned
    started,                \* the handlers the substrate has started: <<task, participant>>
    \* ---- push_to_flow: one activation per invocation, and its caller
    push_pc,
    push_args,              \* target_user_id, target_flow_ref, message
    participants,
    push_msg_id,
    push_step,              \* the next statement of lines 57-66
    push_result,            \* what push_to_flow returned
    colink_storage_key,     \* of the FlowFuture the caller makes from the returned id
    future_result,          \* what the caller's last try_get or get returned
    future_call,            \* which call that was: try_get, get or get with output_data_only
    \* ---- the simple-invoke protocol: one initiator and one target per task
    use_ephemeral_flow,
    proto_participants,     \* per task: the roles of its participants, in order
    ipc,                    \* where the initiator handler of a task is
    tpc,                    \* where the target handler of a task is
    runs,                   \* how many times the task's handlers were started
    variables,              \* per task: what send_variable has passed
    input_msg_b,            \* initiator: input_msg_b
    output_msg_b,           \* initiator: output_msg_b
    input_msg,              \* target: input_msg
    output_msg,             \* target: output_msg
    target_storage,         \* the key-value entries of the target's identity
    subscriptions           \* per subscribed key: the updates not yet read

launcherVars == <<n_independent_samples, fault_tolerant_mode, n_batch_retries,
                  resource_IDs, flow_dirty, flow_state, output_files, pc, resource_id,
                  sample_idx, attempt_idx, error, inference_outputs,
                  human_readable_outputs, hist>>

pushOnlyVars == <<tasks, started, push_pc, push_args, participants,
                  push_msg_id, push_step, push_result, colink_storage_key,
                  future_result, future_call>>

pushVars == <<storage, pushOnlyVars>>

protoVars == <<use_ephemeral_flow, proto_participants, ipc, tpc, runs, variables, input_msg_b,
               output_msg_b, input_msg, output_msg, target_storage, subscriptions>>

vars == <<launcherVars, pushVars, protoVars>>

(* ======================= the batch launcher ========================== *)

\* one entry of a call's history
Ev(kind, rep, att) == [ev |-> kind, rep |-> rep, att |-> att]

\* A repetition that ended well leaves one entry in the history: its attempts
\* are forgotten, its outcome and the reset after it are kept.
Summarised(h, rep) ==
    IF \E i \in 1..Len(h) : h[i].ev = "ok" /\ h[i].rep = rep
      THEN SelectSeq(h, LAMBDA e : e.rep # rep) \o <<Ev("rep_ok", rep, 0)>>
      ELSE h

\* output_interface applied to output_data (identity when there is none)
output_interface(data) == [readable |-> data]

\* the record of a sample as write_batch_output gets it (keys_to_write)
SampleRecord(c) ==
    [id |-> c,
     inference_outputs |-> inference_outputs[c],
     human_readable_outputs |-> human_readable_outputs[c],
     error |-> error[c]]

\* The pool of free slot ids as the launcher's base class builds it: a blocking
\* queue holding each slot id once.
InitialPool == [i \in 1..NumSlots |-> i - 1]

\* write_batch_output of the base class: the records of the batch are
\* appended to the output file
write_batch_output(file, batch) == file \o batch

InitLauncher ==
    /\ n_independent_samples \in 1..MaxSamples
    /\ fault_tolerant_mode \in BOOLEAN
    /\ n_batch_retries \in 0..MaxRetries
    /\ resource_IDs = InitialPool
    /\ flow_dirty = [s \in Slots |-> FALSE]
    /\ flow_state = [s \in Slots |-> {}]
    /\ output_files = [s \in Slots |-> <<>>]
    /\ pc = [c \in Calls |-> "call"]
    /\ resource_id = [c \in Calls |-> NoSlot]
    /\ sample_idx = [c \in Calls |-> 0]
    /\ attempt_idx = [c \in Calls |-> 0]
    /\ error = [c \in Calls |-> None]
    /\ inference_outputs = [c \in Calls |-> <<>>]
    /\ human_readable_outputs = [c \in Calls |-> <<>>]
    /\ hist = [c \in Calls |-> <<>>]

\* self._resource_IDs.get(): the id the blocking dequeue hands out
PoolGet(q) == Head(q)

\* (mutant) get() that leaves the id in the pool
PoolAfterGet_peek(q) == q

\* self._resource_IDs after get()
PoolAfterGet(q) == Tail(q)

\* (mutant) put() that loses the id
PoolPut_lost(q, rid) == q

\* self._resource_IDs.put(_resource_id)
PoolPut(q, rid) == Append(q, rid)

\* line 137: blocks while the pool is empty; the calls are numbered in the
\* order in which their get() returns
Acquire(c) ==
    /\ pc[c] = "call"
    /\ \A q \in Calls : q < c => pc[q] # "call"
    /\ Len(resource_IDs) > 0
    /\ resource_id' = [resource_id EXCEPT ![c] = PoolGet(resource_IDs)]
    /\ resource_IDs' = PoolAfterGet(resource_IDs)
    /\ inference_outputs' = [inference_outputs EXCEPT ![c] = <<>>]
    /\ human_readable_outputs' = [human_readable_outputs EXCEPT ![c] = <<>>]
    /\ error' = [error EXCEPT ![c] = None]
    /\ sample_idx' = [sample_idx EXCEPT ![c] = 0]
    /\ pc' = [pc EXCEPT ![c] = "for"]
    /\ UNCHANGED <<pushVars, protoVars>>
    /\ UNCHANGED <<n_independent_samples, fault_tolerant_mode, n_batch_retries,
                   flow_dirty, flow_state, output_files, attempt_idx, hist>>
\* (mutant) the slot id is put back before the record is written
EndSteps_release_first == <<"put", "finalize">>

\* lines 225-238: the statements of predict after the for loop, in order:
\* the sample's fields and write_batch_output, then self._resource_IDs.put
EndSteps == <<"finalize", "put">>

\* where predict goes after one of these statements
EndAfter(step) ==
    LET i == CHOOSE j \in 1..Len(EndSteps) : EndSteps[j] = step
    IN  IF i = Len(EndSteps) THEN "done" ELSE EndSteps[i + 1]

\* line 158: the for loop goes on while _sample_idx is in range
ForContinues(idx) == idx < n_independent_samples

\* lines 158-163 and 199: a repetition starts
ForBody(c) ==
    /\ pc[c] = "for"
    /\ ForContinues(sample_idx[c])
    /\ error' = [error EXCEPT ![c] = None]
    /\ attempt_idx' = [attempt_idx EXCEPT ![c] = IF fault_tolerant_mode THEN 1 ELSE @]
    /\ pc' = [pc EXCEPT ![c] = IF fault_tolerant_mode THEN "while" ELSE "else"]
    /\ UNCHANGED <<pushVars, protoVars>>
    /\ UNCHANGED <<n_independent_samples, fault_tolerant_mode, n_batch_retries,
                   resource_IDs, flow_dirty, flow_state, output_files, resource_id, sample_idx,
                   inference_outputs, human_readable_outputs, hist>>

\* line 158: the range is exhausted
ForEnd(c) ==
    /\ pc[c] = "for"
    /\ ~ForContinues(sample_idx[c])
    /\ pc' = [pc EXCEPT ![c] = EndSteps[1]]
    /\ UNCHANGED <<pushVars, protoVars>>
    /\ UNCHANGED <<n_independent_samples, fault_tolerant_mode, n_batch_retries,
                   resource_IDs, flow_dirty, flow_state, output_files, resource_id, sample_idx,
                   attempt_idx, error, inference_outputs, human_readable_outputs, hist>>

\* flow(input_message): the call leaves its mark in the flow's state
Mutated(state, c, rep) == state \cup {<<c, rep>>}

\* (mutant) the reset keeps the flow's state
reset_keeps(state) == state

\* flow.reset(full_reset=True, recursive=True): the initial state
reset(state) == {}

\* (mutant) one attempt too many
WhileContinues_offbyone(att) == att <= n_batch_retries + 1

\* line 165: the while condition
WhileContinues(att) == att <= n_batch_retries

\* lines 165-173: an attempt enters flow(input_message)
FTInvoke(c) ==
    /\ pc[c] = "while"
    /\ WhileContinues(attempt_idx[c])
    /\ hist' = [hist EXCEPT ![c] =
                  Append(@, Ev(IF flow_dirty[resource_id[c]] THEN "invoke_dirty" ELSE "invoke",
                               sample_idx[c], attempt_idx[c]))]
    /\ flow_dirty' = [flow_dirty EXCEPT ![resource_id[c]] = TRUE]
    /\ flow_state' = [flow_state EXCEPT ![resource_id[c]] = Mutated(@, c, sample_idx[c])]
    /\ pc' = [pc EXCEPT ![c] = "try"]
    /\ UNCHANGED <<pushVars, protoVars>>
    /\ UNCHANGED <<n_independent_samples, fault_tolerant_mode, n_batch_retries,
                   resource_IDs, output_files, resource_id, sample_idx, attempt_idx,
                   error, inference_outputs, human_readable_outputs>>

\* line 165: the while condition fails, the loop ends without a break
FTWhileEnd(c) ==
    /\ pc[c] = "while"
    /\ ~WhileContinues(attempt_idx[c])
    /\ pc' = [pc EXCEPT ![c] = "check"]
    /\ UNCHANGED <<pushVars, protoVars>>
    /\ UNCHANGED <<n_independent_samples, fault_tolerant_mode, n_batch_retries,
                   resource_IDs, flow_dirty, flow_state, output_files, resource_id, sample_idx,
                   attempt_idx, error, inference_outputs, human_readable_outputs, hist>>

\* lines 173-187: the flow and the output interface return; append, break
FTSuccess(c) ==
    /\ pc[c] = "try"
    /\ inference_outputs' = [inference_outputs EXCEPT ![c] =
                               Append(@, OutputData(sample_idx[c]))]
    /\ human_readable_outputs' = [human_readable_outputs EXCEPT ![c] =
                               Append(@, output_interface(OutputData(sample_idx[c])))]
    /\ error' = [error EXCEPT ![c] = None]
    /\ hist' = [hist EXCEPT ![c] = Append(@, Ev("ok", sample_idx[c], attempt_idx[c]))]
    /\ pc' = [pc EXCEPT ![c] = "check"]
    /\ UNCHANGED <<pushVars, protoVars>>
    /\ UNCHANGED <<n_independent_samples, fault_tolerant_mode, n_batch_retries,
                   resource_IDs, flow_dirty, flow_state, output_files, resource_id, sample_idx,
                   attempt_idx>>

\* lines 188-194: the flow or the output interface raises; count the attempt
FTExcept(c) ==
    /\ pc[c] = "try"
    /\ hist' = [hist EXCEPT ![c] = Append(@, Ev("fail", sample_idx[c], attempt_idx[c]))]
    /\ attempt_idx' = [attempt_idx EXCEPT ![c] = @ + 1]
    /\ pc' = [pc EXCEPT ![c] = "sleep"]
    /\ UNCHANGED <<pushVars, protoVars>>
    /\ UNCHANGED <<n_independent_samples, fault_tolerant_mode, n_batch_retries,
                   resource_IDs, flow_dirty, flow_state, output_files, resource_id, sample_idx,
                   error, inference_outputs, human_readable_outputs>>

\* (mutant) the error is not recorded
ErrorAfterFailure_none(rep, att) == None

\* line 197: _error = str(e), e the exception of the attempt just counted
ErrorAfterFailure(rep, att) == StrE(rep, att - 1)

\* lines 195-197: time.sleep, then _error = str(e), then back to the while
FTSleep(c) ==
    /\ pc[c] = "sleep"
    /\ hist' = [hist EXCEPT ![c] = Append(@, Ev("sleep", sample_idx[c], attempt_idx[c] - 1))]
    /\ error' = [error EXCEPT ![c] = ErrorAfterFailure(sample_idx[c], attempt_idx[c])]
    /\ pc' = [pc EXCEPT ![c] = "while"]
    /\ UNCHANGED <<pushVars, protoVars>>
    /\ UNCHANGED <<n_independent_samples, fault_tolerant_mode, n_batch_retries,
                   resource_IDs, flow_dirty, flow_state, output_files, resource_id, sample_idx,
                   attempt_idx, inference_outputs, human_readable_outputs>>

\* lines 199-206: the single attempt of the development mode enters the flow
NFTInvoke(c) ==
    /\ pc[c] = "else"
    /\ hist' = [hist EXCEPT ![c] =
                  Append(@, Ev(IF flow_dirty[resource_id[c]] THEN "invoke_dirty" ELSE "invoke",
                               sample_idx[c], 1))]
    /\ flow_dirty' = [flow_dirty EXCEPT ![resource_id[c]] = TRUE]
    /\ flow_state' = [flow_state EXCEPT ![resource_id[c]] = Mutated(@, c, sample_idx[c])]
    /\ pc' = [pc EXCEPT ![c] = "else_call"]
    /\ UNCHANGED <<pushVars, protoVars>>
    /\ UNCHANGED <<n_independent_samples, fault_tolerant_mode, n_batch_retries,
                   resource_IDs, output_files, resource_id, sample_idx, attempt_idx,
                   error, inference_outputs, human_readable_outputs>>

\* lines 206-218: it returns
NFTSuccess(c) ==
    /\ pc[c] = "else_call"
    /\ inference_outputs' = [inference_outputs EXCEPT ![c] =
                               Append(@, OutputData(sample_idx[c]))]
    /\ human_readable_outputs' = [human_readable_outputs EXCEPT ![c] =
                               Append(@, output_interface(OutputData(sample_idx[c])))]
    /\ error' = [error EXCEPT ![c] = None]
    /\ hist' = [hist EXCEPT ![c] = Append(@, Ev("ok", sample_idx[c], 1))]
    /\ pc' = [pc EXCEPT ![c] = "check"]
    /\ UNCHANGED <<pushVars, protoVars>>
    /\ UNCHANGED <<n_independent_samples, fault_tolerant_mode, n_batch_retries,
                   resource_IDs, flow_dirty, flow_state, output_files, resource_id, sample_idx,
                   attempt_idx>>

\* (mutant) the exception is caught as in the fault-tolerant branch
NFTRaise_caught(c) ==
    /\ pc[c] = "else_call"
    /\ hist' = [hist EXCEPT ![c] = Append(@, Ev("fail", sample_idx[c], 1))]
    /\ error' = [error EXCEPT ![c] = StrE(sample_idx[c], 1)]
    /\ pc' = [pc EXCEPT ![c] = "check"]
    /\ UNCHANGED <<pushVars, protoVars>>
    /\ UNCHANGED <<n_independent_samples, fault_tolerant_mode, n_batch_retries,
                   resource_IDs, flow_dirty, flow_state, output_files, resource_id, sample_idx,
                   attempt_idx, inference_outputs, human_readable_outputs>>

\* lines 206-214: it raises; lines 199-218 have no try, so the exception
\* leaves predict: lines 220-238 do not run
NFTRaise(c) ==
    /\ pc[c] = "else_call"
    /\ hist' = [hist EXCEPT ![c] = Append(@, Ev("fail", sample_idx[c], 1))]
    /\ pc' = [pc EXCEPT ![c] = "raised"]
    /\ UNCHANGED <<pushVars, protoVars>>
    /\ UNCHANGED <<n_independent_samples, fault_tolerant_mode, n_batch_retries,
                   resource_IDs, flow_dirty, flow_state, output_files, resource_id, sample_idx,
                   attempt_idx, error, inference_outputs, human_readable_outputs>>

\* (mutant) the break is missing
BreakOnError_never(err) == FALSE

\* line 220: if _error is not None
BreakOnError(err) == err # None

\* lines 220-222: one of the independent samples failed: break
CheckBreak(c) ==
    /\ pc[c] = "check"
    /\ BreakOnError(error[c])
    /\ pc' = [pc EXCEPT ![c] = EndSteps[1]]
    /\ UNCHANGED <<pushVars, protoVars>>
    /\ UNCHANGED <<n_independent_samples, fault_tolerant_mode, n_batch_retries,
                   resource_IDs, flow_dirty, flow_state, output_files, resource_id, sample_idx,
                   attempt_idx, error, inference_outputs, human_readable_outputs, hist>>

\* line 223: flow.reset(full_reset=True, recursive=True), then the next repetition
Reset(c) ==
    /\ pc[c] = "check"
    /\ ~BreakOnError(error[c])
    /\ flow_dirty' = [flow_dirty EXCEPT ![resource_id[c]] = FALSE]
    /\ flow_state' = [flow_state EXCEPT ![resource_id[c]] = reset(@)]
    /\ hist' = [hist EXCEPT ![c] = Append(Summarised(@, sample_idx[c]), Ev("reset", sample_idx[c], 0))]
    /\ sample_idx' = [sample_idx EXCEPT ![c] = @ + 1]
    /\ pc' = [pc EXCEPT ![c] = "for"]
    /\ UNCHANGED <<pushVars, protoVars>>
    /\ UNCHANGED <<n_independent_samples, fault_tolerant_mode, n_batch_retries,
                   resource_IDs, output_files, resource_id, attempt_idx, error,
                   inference_outputs, human_readable_outputs>>

\* lines 225-235: the sample gets its fields and write_batch_output appends
\* the record to the output file of the slot
WriteBatchOutput(c) ==
    /\ pc[c] = "finalize"
    /\ output_files' = [output_files EXCEPT ![resource_id[c]] = write_batch_output(@, <<SampleRecord(c)>>)]
    /\ hist' = [hist EXCEPT ![c] = Append(@, Ev("write", sample_idx[c], 0))]
    /\ pc' = [pc EXCEPT ![c] = EndAfter("finalize")]
    /\ UNCHANGED <<pushVars, protoVars>>
    /\ UNCHANGED <<n_independent_samples, fault_tolerant_mode, n_batch_retries,
                   resource_IDs, flow_dirty, flow_state, resource_id, sample_idx, attempt_idx,
                   error, inference_outputs, human_readable_outputs>>

\* lines 237-238: the slot id goes back to the pool and predict returns; its
\* local variables end with the activation
Release(c) ==
    /\ pc[c] = "put"
    /\ resource_IDs' = PoolPut(resource_IDs, resource_id[c])
    /\ pc' = [pc EXCEPT ![c] = EndAfter("put")]
    /\ IF EndAfter("put") = "done"
         THEN /\ resource_id' = [resource_id EXCEPT ![c] = NoSlot]
              /\ sample_idx' = [sample_idx EXCEPT ![c] = 0]
              /\ attempt_idx' = [attempt_idx EXCEPT ![c] = 0]
              /\ error' = [error EXCEPT ![c] = None]
              /\ inference_outputs' = [inference_outputs EXCEPT ![c] = <<>>]
              /\ human_readable_outputs' = [human_readable_outputs EXCEPT ![c] = <<>>]
              /\ hist' = [hist EXCEPT ![c] = <<>>]
         ELSE UNCHANGED <<resource_id, sample_idx, attempt_idx, error,
                          inference_outputs, human_readable_outputs, hist>>
    /\ UNCHANGED <<pushVars, protoVars>>
    /\ UNCHANGED <<n_independent_samples, fault_tolerant_mode, n_batch_retries,
                   flow_dirty, flow_state, output_files>>

NextLauncher ==
    \E c \in Calls :
        \/ Acquire(c)
        \/ ForBody(c)
        \/ ForEnd(c)
        \/ FTInvoke(c)
        \/ FTWhileEnd(c)
        \/ FTSuccess(c)
        \/ FTExcept(c)
        \/ FTSleep(c)
        \/ NFTInvoke(c)
        \/ NFTSuccess(c)
        \/ NFTRaise(c)
        \/ CheckBreak(c)
        \/ Reset(c)
        \/ WriteBatchOutput(c)
        \/ Release(c)

(* ==================== push_to_flow and FlowFuture ===================== *)

\* the identities (CoLink users) and what a caller may name as the target
Users == {"u1", "u2"}
Targets == Users \cup {"local"}

\* cl.get_user_id(): the identity of the process that pushes and owns cl
Caller == "u1"

\* the invocations submitted, and the ids uuid4 draws from
Pushes == 1..NumPushes
Uuids == 1..NumPushes

\* the output payloads a target may answer with
Answers == {"a"}

\* coflows_utils.py, line 8
PUSH_ARGS_TRANSFER_PATH == "push_tasks"

\* f"{PUSH_ARGS_TRANSFER_PATH}:{push_msg_id}:msg". The text of a UUID stands for
\* the UUID; a key is the sequence of the fields the colons separate.
MsgKey(msg_id) == <<PUSH_ARGS_TRANSFER_PATH, msg_id, "msg">>

\* (mutant) the key forgets the invocation id
ResponseKey_shared(msg_id) == <<PUSH_ARGS_TRANSFER_PATH, 0, "response">>

\* FlowFuture.__init__: f"{PUSH_ARGS_TRANSFER_PATH}:{msg_id}:response"
ResponseKey(msg_id) == <<PUSH_ARGS_TRANSFER_PATH, msg_id, "response">>

\* Message.serialize and OutputMessage.deserialize: bytes and back
serialize(message) == <<"bytes", message>>

\* (mutant) deserialize fails on None
deserialize_strict(bytes) == IF bytes = None THEN <<"raised", "TypeError">> ELSE bytes[2]

deserialize(bytes) == IF bytes = None THEN None ELSE bytes[2]

\* coflows_serialize and coflows_deserialize: JSON text in UTF-8 and back
coflows_serialize(data) == <<"json", data>>
coflows_deserialize(encoded_data) == IF encoded_data = None THEN None ELSE encoded_data[2]

\* push_param of lines 62-65
PushParam(flow_id, message_id) == <<"push_param", flow_id, message_id>>
MessageIdOf(param) == coflows_deserialize(param)[3]

\* the substrate's storage primitives: create_entry writes a key once (it fails
\* on a key that exists and leaves the entry as it is), update_entry
\* overwrites, read_entry gives None for a key that is absent
HasEntry(st, key) == key \in DOMAIN st
create_entry(st, key, val) == IF HasEntry(st, key) THEN st ELSE st @@ (key :> val)
update_entry(st, key, val) == [k \in DOMAIN st \cup {key} |-> IF k = key THEN val ELSE st[k]]
read_entry(st, key) == IF HasEntry(st, key) THEN st[key] ELSE None

\* (mutant) only the sentinel counts as local
Participants_sentinel_only(caller, target_user_id) ==
    IF target_user_id = "local"
      THEN << <<caller, "receiver">> >>
      ELSE << <<caller, "initiator">>, <<target_user_id, "receiver">> >>

\* lines 37-54: the participant list
Participants(caller, target_user_id) ==
    IF target_user_id = "local" \/ target_user_id = caller
      THEN << <<caller, "receiver">> >>
      ELSE << <<caller, "initiator">>, <<target_user_id, "receiver">> >>

\* (mutant) the task is spawned before the message is stored
PushSteps_spawn_first == <<"run_task", "create_entry">>

\* lines 57-66: the statements of push_to_flow after the id is drawn, in order
PushSteps == <<"create_entry", "run_task">>

\* the ids uuid4 has handed out
UsedUuids == {push_msg_id[p] : p \in {q \in Pushes : push_pc[q] # "idle"}}

InitPush ==
    /\ storage = <<>>
    /\ tasks = {}
    /\ started = {}
    /\ push_pc = [p \in Pushes |-> "idle"]
    /\ push_args = [p \in Pushes |-> <<>>]
    /\ participants = [p \in Pushes |-> <<>>]
    /\ push_msg_id = [p \in Pushes |-> 0]
    /\ push_step = [p \in Pushes |-> 0]
    /\ push_result = [p \in Pushes |-> None]
    /\ colink_storage_key = [p \in Pushes |-> None]
    /\ future_result = [p \in Pushes |-> None]
    /\ future_call = [p \in Pushes |-> "none"]

\* line 67: return push_msg_id, the id itself (a uuid.UUID)
ReturnValue(msg_id) == <<"UUID", msg_id>>

\* where push_to_flow goes after the statement numbered push_step
AfterStep(p) ==
    /\ push_step' = [push_step EXCEPT ![p] = @ + 1]
    /\ push_pc' = [push_pc EXCEPT ![p] =
                     IF push_step[p] + 1 > Len(PushSteps) THEN "returned" ELSE "running"]
    /\ push_result' = [push_result EXCEPT ![p] =
                         IF push_step[p] + 1 > Len(PushSteps)
                           THEN ReturnValue(push_msg_id[p]) ELSE @]

\* line 56: uuid.uuid4() gives an id that no invocation has had (a collision
\* of random 128-bit ids is not modelled)
uuid4 == CHOOSE id \in Uuids \ UsedUuids : \A other \in Uuids \ UsedUuids : id <= other

\* lines 36-56: a caller enters push_to_flow; the participants are computed
\* and the id is drawn (the activations are numbered in the order they begin)
PushBegin(p, target_user_id) ==
    /\ push_pc[p] = "idle"
    /\ \A q \in Pushes : q < p => push_pc[q] # "idle"
    /\ push_args' = [push_args EXCEPT ![p] = <<target_user_id, "flowA", <<"goal", p>> >>]
    /\ participants' = [participants EXCEPT ![p] = Participants(Caller, target_user_id)]
    /\ push_msg_id' = [push_msg_id EXCEPT ![p] = uuid4]
    /\ push_step' = [push_step EXCEPT ![p] = 1]
    /\ push_pc' = [push_pc EXCEPT ![p] = "running"]
    /\ UNCHANGED <<storage, tasks, started, push_result, colink_storage_key,
                   future_result, future_call>>
    /\ UNCHANGED <<launcherVars, protoVars>>

\* lines 57-60: cl.create_entry(f"push_tasks:{push_msg_id}:msg", message.serialize())
PushCreateEntry(p) ==
    /\ push_pc[p] = "running"
    /\ PushSteps[push_step[p]] = "create_entry"
    /\ LET key == MsgKey(push_msg_id[p])
       IN  IF HasEntry(storage, key)
             THEN /\ push_pc' = [push_pc EXCEPT ![p] = "raised"]
                  /\ UNCHANGED <<storage, push_step, push_result>>
             ELSE /\ storage' = create_entry(storage, key, serialize(push_args[p][3]))
                  /\ AfterStep(p)
    /\ UNCHANGED <<tasks, started, push_args, participants, push_msg_id,
                   colink_storage_key, future_result, future_call>>
    /\ UNCHANGED <<launcherVars, protoVars>>

\* lines 62-67: cl.run_task("coflows_push", coflows_serialize(push_param),
\* participants, True); the substrate takes the task
PushRunTask(p) ==
    /\ push_pc[p] = "running"
    /\ PushSteps[push_step[p]] = "run_task"
    /\ tasks' = tasks \cup {[protocol |-> "coflows_push",
                               param |-> coflows_serialize(PushParam(push_args[p][2], push_msg_id[p])),
                               participants |-> participants[p],
                               starter |-> Caller]}
    /\ AfterStep(p)
    /\ UNCHANGED <<storage, started, push_args, participants, push_msg_id,
                   colink_storage_key, future_result, future_call>>
    /\ UNCHANGED <<launcherVars, protoVars>>

\* (mutant) the error of run_task is swallowed and push_to_flow returns
OnRunTaskError_swallowed == "returned"

\* line 66 is in no try: an error of run_task leaves push_to_flow
OnRunTaskError == "raised"

\* line 66: the substrate rejects the task; run_task raises
PushRunTaskRejected(p) ==
    /\ push_pc[p] = "running"
    /\ PushSteps[push_step[p]] = "run_task"
    /\ push_pc' = [push_pc EXCEPT ![p] = OnRunTaskError]
    /\ UNCHANGED <<storage, tasks, started, push_args, participants, push_msg_id,
                   push_step, push_result, colink_storage_key, future_result, future_call>>
    /\ UNCHANGED <<launcherVars, protoVars>>

\* the substrate starts the handler of participant i of task t
StartHandler(t, i) ==
    /\ i \in 1..Len(t.participants)
    /\ <<t, i>> \notin started
    /\ started' = started \cup {<<t, i>>}
    /\ UNCHANGED <<storage, tasks, push_pc, push_args, participants, push_msg_id,
                   push_step, push_result, colink_storage_key, future_result, future_call>>
    /\ UNCHANGED <<launcherVars, protoVars>>

\* The answer arrives: the handler of task t that runs under the caller's
\* identity (the first participant, the only one with access to the caller's
\* storage) writes the response of the invocation whose message_id its
\* parameter carries, once, under that invocation's response key.
WriteResponse(t, answer) ==
    /\ <<t, 1>> \in started
    /\ LET msg_id == MessageIdOf(t.param)
           key == ResponseKey(msg_id)
       IN  /\ ~HasEntry(storage, key)
           /\ storage' = create_entry(storage, key,
                     serialize(<<"OutputMessage", <<"output_data", msg_id, answer>> >>))
    /\ UNCHANGED <<tasks, started, push_pc, push_args, participants, push_msg_id,
                   push_step, push_result, colink_storage_key, future_result, future_call>>
    /\ UNCHANGED <<launcherVars, protoVars>>

\* FlowFuture.__init__ (lines 12-14), called with the id push_to_flow returned
FutureInit(p) ==
    /\ push_pc[p] = "returned"
    /\ colink_storage_key[p] = None
    /\ colink_storage_key' = [colink_storage_key EXCEPT ![p] = ResponseKey(push_result[p][2])]
    /\ UNCHANGED <<storage, tasks, started, push_pc, push_args, participants,
                   push_msg_id, push_step, push_result, future_result, future_call>>
    /\ UNCHANGED <<launcherVars, protoVars>>

\* self.cl.read_or_wait(key), once the entry exists
read_or_wait(st, key) == st[key]

\* (mutant) get hands out the whole message whatever output_data_only says
Returned_whole(message, output_data_only) == message

\* lines 30-33: message.data["output_data"] if output_data_only, else message
Returned(message, output_data_only) ==
    IF output_data_only THEN message[2] ELSE message

\* FlowFuture.try_get (lines 16-20)
try_get(p) ==
    /\ colink_storage_key[p] # None
    /\ future_result' = [future_result EXCEPT ![p] =
                    deserialize(read_entry(storage, colink_storage_key[p]))]
    /\ future_call' = [future_call EXCEPT ![p] = "try_get"]
    /\ UNCHANGED <<storage, tasks, started, push_pc, push_args, participants,
                   push_msg_id, push_step, push_result, colink_storage_key>>
    /\ UNCHANGED <<launcherVars, protoVars>>

\* FlowFuture.get (lines 22-33): read_or_wait blocks until the entry exists
get(p, output_data_only) ==
    /\ colink_storage_key[p] # None
    /\ HasEntry(storage, colink_storage_key[p])
    /\ LET message == deserialize(read_or_wait(storage, colink_storage_key[p]))
       IN  future_result' = [future_result EXCEPT ![p] = Returned(message, output_data_only)]
    /\ future_call' = [future_call EXCEPT ![p] =
                         IF output_data_only THEN "get_data" ELSE "get"]
    /\ UNCHANGED <<storage, tasks, started, push_pc, push_args, participants,
                   push_msg_id, push_step, push_result, colink_storage_key>>
    /\ UNCHANGED <<launcherVars, protoVars>>

NextPush ==
    \/ \E p \in Pushes, target \in Targets : PushBegin(p, target)
    \/ \E p \in Pushes : PushCreateEntry(p)
    \/ \E p \in Pushes : PushRunTask(p)
    \/ \E p \in Pushes : PushRunTaskRejected(p)
    \/ \E t \in tasks, i \in 1..2 : StartHandler(t, i)
    \/ \E t \in tasks, a \in Answers : WriteResponse(t, a)
    \/ \E p \in Pushes : FutureInit(p)
    \/ \E p \in Pushes : try_get(p)
    \/ \E p \in Pushes, odo \in BOOLEAN : get(p, odo)

(* ===================== the simple-invoke protocol ===================== *)

\* the tasks of the protocol that a task starter spawns; the substrate gives
\* each its task id
ProtoTasks == 1..NumTasks

\* the output payloads the target unit may compute (the output also carries
\* the input it was computed from, so outputs of different tasks differ)
UnitAnswers == {"x"}

\* the target unit's work queue, as the task's parameter names it
TargetFlowQueue == "flowA"

\* pickle.dumps and pickle.loads
pickle_dumps(obj) == <<"pickle", obj>>
pickle_loads(bytes) == bytes[2]

\* a message: its data and data["colink_meta_data"]["response_queue_name"]
Msg(data, response_queue_name) == <<"Message", data, response_queue_name>>

\* f"simple-invoke-init:{target_flow_queue}:{cl.get_task_id()}:input_msg"
InputKey(q, task_id) == <<"simple-invoke-init", q, task_id, "input_msg">>

\* f"simple-invoke-init:{target_flow_queue}:{cl.get_task_id()}:output_msg"
OutputKey(q, task_id) == <<"simple-invoke-init", q, task_id, "output_msg">>

\* f"simple-invoke-serve:{target_flow_queue}:{cl.get_task_id()}"
ResponseQueueName(q, task_id) == <<"simple-invoke-serve", q, task_id>>

\* the entry the target unit's worker watches: target_flow_queue itself
WorkQueueKey(q) == <<q>>

\* an update of an entry reaches the subscriptions that exist for its key
Published(subs, key, val) ==
    [k \in DOMAIN subs |-> IF k = key THEN Append(subs[k], val) ELSE subs[k]]

\* cl.subscribe(key, None): a new subscription to the updates of the entry,
\* from now on
subscribe(subs, key) ==
    IF key \in DOMAIN subs THEN [subs EXCEPT ![key] = <<>>] ELSE subs @@ (key :> <<>>)

\* f"{protocol}:{role}", the name under which the substrate looks up the
\* handler of a participant of a task
HandlerName(protocol, role) == <<protocol, role>>

\* lines 14 and 46: the names get_simple_invoke_protocol registers handlers for
Handled == {HandlerName("simple-invoke", "initiator"),
            HandlerName("simple-invoke", "target-flow")}

\* the participant lists of a task: initiator and target, or for a purely
\* local invocation the target alone
RoleLists == {<<"initiator", "target-flow">>, <<"target-flow">>}

\* a handler of the protocol runs for the role: the role is in the task's
\* list and a handler is registered for it
HasRole(roles, role) ==
    /\ \E i \in 1..Len(roles) : roles[i] = role
    /\ HandlerName("simple-invoke", role) \in Handled

\* (mutant) the initiator waits for the output before it sends the input
InitiatorSteps_recv_first == <<"read_input", "recv", "send", "store">>

\* lines 29-43: the statements of run_simpleinvoke_initiator, in order
InitiatorSteps == <<"read_input", "send", "recv", "store">>

\* where the initiator handler goes after a statement
InitiatorAfter(step) ==
    LET i == CHOOSE j \in 1..Len(InitiatorSteps) : InitiatorSteps[j] = step
    IN  IF i = Len(InitiatorSteps) THEN "done" ELSE InitiatorSteps[i + 1]

\* (mutant) the queue is used in both submodes
UsesQueue_always(ephemeral) == TRUE

\* lines 56 and 72: if not use_ephemeral_flow
UsesQueue(ephemeral) == ~ephemeral

\* (mutant) the target forwards the input before it subscribes
TargetSteps_forward_first(ephemeral) ==
    IF UsesQueue(ephemeral)
      THEN <<"recv", "forward", "subscribe", "wait", "send">>
      ELSE <<"recv", "call", "send">>

\* lines 56-92: the statements of run_simpleinvoke_targetflow, in order
TargetSteps(ephemeral) ==
    IF UsesQueue(ephemeral)
      THEN <<"subscribe", "recv", "forward", "wait", "send">>
      ELSE <<"recv", "call", "send">>

\* where the target handler goes after a statement
TargetAfter(step) ==
    LET steps == TargetSteps(use_ephemeral_flow)
        i == CHOOSE j \in 1..Len(steps) : steps[j] = step
    IN  IF i = Len(steps) THEN "done" ELSE steps[i + 1]

InitProtocol ==
    /\ use_ephemeral_flow \in BOOLEAN
    /\ proto_participants = [t \in ProtoTasks |-> <<>>]
    /\ ipc = [t \in ProtoTasks |-> "idle"]
    /\ tpc = [t \in ProtoTasks |-> "idle"]
    /\ runs = [t \in ProtoTasks |-> 0]
    /\ variables = [t \in ProtoTasks |-> [input_msg |-> None, output_msg |-> None]]
    /\ input_msg_b = [t \in ProtoTasks |-> None]
    /\ output_msg_b = [t \in ProtoTasks |-> None]
    /\ input_msg = [t \in ProtoTasks |-> None]
    /\ output_msg = [t \in ProtoTasks |-> None]
    /\ target_storage = <<>>
    /\ subscriptions = (WorkQueueKey(TargetFlowQueue) :> <<>>)

\* The task starter spawns the task with the initiator and the target as
\* participants, or with the target alone; the substrate starts the handler
\* registered for each participant's role.  Task ids are numbered in the
\* order in which the tasks are spawned.
StarterRunTask(t, roles) ==
    /\ ipc[t] = "idle"
    /\ tpc[t] = "idle"
    /\ runs[t] = 0
    /\ \A q \in ProtoTasks : q < t => runs[q] >= 1
    /\ runs' = [runs EXCEPT ![t] = 1]
    /\ proto_participants' = [proto_participants EXCEPT ![t] = roles]
    /\ ipc' = [ipc EXCEPT ![t] = IF HasRole(roles, "initiator") THEN InitiatorSteps[1] ELSE @]
    /\ tpc' = [tpc EXCEPT ![t] =
                 IF HasRole(roles, "target-flow") THEN TargetSteps(use_ephemeral_flow)[1] ELSE @]
    /\ UNCHANGED <<launcherVars, pushOnlyVars>>
    /\ UNCHANGED <<use_ephemeral_flow, variables, input_msg_b, output_msg_b, input_msg,
                   output_msg, target_storage, subscriptions, storage>>

\* The task starter hands its input to the task: the input entry keyed by the
\* target's queue and the task id.
StarterWriteInput(t) ==
    /\ runs[t] >= 1
    /\ ~HasEntry(storage, InputKey(TargetFlowQueue, t))
    /\ storage' = create_entry(storage, InputKey(TargetFlowQueue, t),
                               pickle_dumps(Msg(<<"goal", t>>, None)))
    /\ UNCHANGED <<launcherVars, pushOnlyVars>>
    /\ UNCHANGED <<use_ephemeral_flow, proto_participants, ipc, tpc, runs, variables, input_msg_b,
                   output_msg_b, input_msg, output_msg, target_storage, subscriptions>>

\* The substrate runs the handlers of a finished task a second time (a
\* duplicate delivery of the task); one task at most is delivered again.
DuplicateRun(t) ==
    /\ ipc[t] \in {"done", "raised"}
    /\ tpc[t] = "done"
    /\ runs[t] < MaxRuns
    /\ \A q \in ProtoTasks \ {t} : runs[q] <= 1
    /\ runs' = [runs EXCEPT ![t] = @ + 1]
    /\ ipc' = [ipc EXCEPT ![t] = InitiatorSteps[1]]
    /\ tpc' = [tpc EXCEPT ![t] = TargetSteps(use_ephemeral_flow)[1]]
    /\ variables' = [variables EXCEPT ![t] = [input_msg |-> None, output_msg |-> None]]
    /\ UNCHANGED <<launcherVars, pushOnlyVars>>
    /\ UNCHANGED <<use_ephemeral_flow, proto_participants, input_msg_b, output_msg_b, input_msg,
                   output_msg, target_storage, subscriptions, storage>>

\* ---- run_simpleinvoke_initiator

\* lines 25-31: cl.read_or_wait blocks until the input entry exists
InitiatorReadInput(t) ==
    /\ ipc[t] = "read_input"
    /\ HasEntry(storage, InputKey(TargetFlowQueue, t))
    /\ input_msg_b' = [input_msg_b EXCEPT ![t] = storage[InputKey(TargetFlowQueue, t)]]
    /\ ipc' = [ipc EXCEPT ![t] = InitiatorAfter("read_input")]
    /\ UNCHANGED <<launcherVars, pushOnlyVars>>
    /\ UNCHANGED <<use_ephemeral_flow, proto_participants, tpc, runs, variables, output_msg_b, input_msg,
                   output_msg, target_storage, subscriptions, storage>>

\* line 35: cl.send_variable("input_msg", input_msg_b, [participants[1]])
InitiatorSend(t) ==
    /\ ipc[t] = "send"
    /\ variables' = [variables EXCEPT ![t].input_msg = input_msg_b[t]]
    /\ ipc' = [ipc EXCEPT ![t] = InitiatorAfter("send")]
    /\ UNCHANGED <<launcherVars, pushOnlyVars>>
    /\ UNCHANGED <<use_ephemeral_flow, proto_participants, tpc, runs, input_msg_b, output_msg_b, input_msg,
                   output_msg, target_storage, subscriptions, storage>>

\* line 36: cl.recv_variable("output_msg", participants[1]) blocks until sent
InitiatorRecv(t) ==
    /\ ipc[t] = "recv"
    /\ variables[t].output_msg # None
    /\ output_msg_b' = [output_msg_b EXCEPT ![t] = variables[t].output_msg]
    /\ ipc' = [ipc EXCEPT ![t] = InitiatorAfter("recv")]
    /\ UNCHANGED <<launcherVars, pushOnlyVars>>
    /\ UNCHANGED <<use_ephemeral_flow, proto_participants, tpc, runs, variables, input_msg_b, input_msg,
                   output_msg, target_storage, subscriptions, storage>>

\* (mutant) the output entry is written with update_entry
StoreOutput_overwrite(st, key, val) == update_entry(st, key, val)

\* lines 40-43: cl.create_entry(output key, output_msg_b)
StoreOutput(st, key, val) == create_entry(st, key, val)

\* lines 38-43: the output entry of the task; create_entry raises when the
\* entry exists
InitiatorStoreOutput(t) ==
    /\ ipc[t] = "store"
    /\ storage' = StoreOutput(storage, OutputKey(TargetFlowQueue, t), output_msg_b[t])
    /\ ipc' = [ipc EXCEPT ![t] =
                 IF HasEntry(storage, OutputKey(TargetFlowQueue, t))
                   THEN "raised" ELSE InitiatorAfter("store")]
    /\ UNCHANGED <<launcherVars, pushOnlyVars>>
    /\ UNCHANGED <<use_ephemeral_flow, proto_participants, tpc, runs, variables, input_msg_b, output_msg_b,
                   input_msg, output_msg, target_storage, subscriptions>>

\* ---- run_simpleinvoke_targetflow

\* lines 56-63: the response subscription, named after the task
TargetSubscribe(t) ==
    /\ tpc[t] = "subscribe"
    /\ subscriptions' = subscribe(subscriptions, ResponseQueueName(TargetFlowQueue, t))
    /\ tpc' = [tpc EXCEPT ![t] = TargetAfter("subscribe")]
    /\ UNCHANGED <<launcherVars, pushOnlyVars>>
    /\ UNCHANGED <<use_ephemeral_flow, proto_participants, ipc, runs, variables, input_msg_b, output_msg_b,
                   input_msg, output_msg, target_storage, storage>>

\* lines 65-70: cl.recv_variable("input_msg", participants[0]); pickle.loads
TargetRecv(t) ==
    /\ tpc[t] = "recv"
    /\ variables[t].input_msg # None
    /\ input_msg' = [input_msg EXCEPT ![t] = pickle_loads(variables[t].input_msg)]
    /\ tpc' = [tpc EXCEPT ![t] = TargetAfter("recv")]
    /\ UNCHANGED <<launcherVars, pushOnlyVars>>
    /\ UNCHANGED <<use_ephemeral_flow, proto_participants, ipc, runs, variables, input_msg_b, output_msg_b,
                   output_msg, target_storage, subscriptions, storage>>

\* lines 72-76: the input is tagged with the response queue's name and written
\* into the target unit's work queue entry
TargetForward(t) ==
    /\ tpc[t] = "forward"
    /\ LET tagged == Msg(input_msg[t][2], ResponseQueueName(TargetFlowQueue, t))
           bytes == pickle_dumps(tagged)
       IN  /\ input_msg' = [input_msg EXCEPT ![t] = tagged]
           /\ target_storage' = update_entry(target_storage, WorkQueueKey(TargetFlowQueue), bytes)
           /\ subscriptions' = Published(subscriptions, WorkQueueKey(TargetFlowQueue), bytes)
    /\ tpc' = [tpc EXCEPT ![t] = TargetAfter("forward")]
    /\ UNCHANGED <<launcherVars, pushOnlyVars>>
    /\ UNCHANGED <<use_ephemeral_flow, proto_participants, ipc, runs, variables, input_msg_b, output_msg_b,
                   output_msg, storage>>

\* (mutant) the worker reads the work queue entry as it is now
NextWork_latest(subs, st) == st[WorkQueueKey(TargetFlowQueue)]

\* the worker watches its work queue entry: it gets every update of the
\* entry, in the order the updates were made
NextWork(subs, st) == Head(subs[WorkQueueKey(TargetFlowQueue)])

\* The worker loop of the target unit: it takes the next update of its work
\* queue entry, computes an output and publishes it under the response queue
\* name that the input carries.
WorkerServe(answer) ==
    /\ Len(subscriptions[WorkQueueKey(TargetFlowQueue)]) > 0
    /\ LET work == pickle_loads(NextWork(subscriptions, target_storage))
           out == pickle_dumps(Msg(<<"output_data", work[2], answer>>, None))
           rest == [subscriptions EXCEPT ![WorkQueueKey(TargetFlowQueue)] = Tail(@)]
       IN  /\ target_storage' = update_entry(target_storage, work[3], out)
           /\ subscriptions' = Published(rest, work[3], out)
    /\ UNCHANGED <<launcherVars, pushOnlyVars>>
    /\ UNCHANGED <<use_ephemeral_flow, proto_participants, ipc, tpc, runs, variables, input_msg_b,
                   output_msg_b, input_msg, output_msg, storage>>

\* lines 78-79: get_next_update_message(response_subscriber) blocks until the
\* subscription has a message
TargetReadOutput(t) ==
    /\ tpc[t] = "wait"
    /\ LET name == ResponseQueueName(TargetFlowQueue, t)
       IN  /\ Len(subscriptions[name]) > 0
           /\ output_msg' = [output_msg EXCEPT ![t] = pickle_loads(Head(subscriptions[name]))]
           /\ subscriptions' = [subscriptions EXCEPT ![name] = Tail(@)]
    /\ tpc' = [tpc EXCEPT ![t] = TargetAfter("wait")]
    /\ UNCHANGED <<launcherVars, pushOnlyVars>>
    /\ UNCHANGED <<use_ephemeral_flow, proto_participants, ipc, runs, variables, input_msg_b, output_msg_b,
                   input_msg, target_storage, storage>>

\* lines 85-88: the output's data gets an empty colink_meta_data when it has
\* no "meta_data" key, and then the flow's state under colink_meta_data; with
\* a "meta_data" key and no colink_meta_data the assignment raises KeyError
ColinkMetaData(has_meta_data, has_colink_meta_data, state) ==
    IF ~has_meta_data THEN <<"state", state, "fresh">>
    ELSE IF has_colink_meta_data THEN <<"state", state, "kept">>
    ELSE None

\* lines 81-88: a fresh flow is made and called; its state goes into the
\* output's colink_meta_data
TargetCallEphemeral(t, answer, has_meta_data, has_colink_meta_data) ==
    /\ tpc[t] = "call"
    /\ LET meta == ColinkMetaData(has_meta_data, has_colink_meta_data, answer)
       IN  IF meta = None
             THEN /\ tpc' = [tpc EXCEPT ![t] = "raised"]
                  /\ UNCHANGED output_msg
             ELSE /\ tpc' = [tpc EXCEPT ![t] = TargetAfter("call")]
                  /\ output_msg' = [output_msg EXCEPT ![t] =
                                      Msg(<<"output_data", input_msg[t][2], answer>>, meta)]
    /\ UNCHANGED <<launcherVars, pushOnlyVars>>
    /\ UNCHANGED <<use_ephemeral_flow, proto_participants, ipc, runs, variables, input_msg_b, output_msg_b,
                   input_msg, target_storage, subscriptions, storage>>

\* lines 90-92: cl.send_variable("output_msg", pickle.dumps(output_msg), [participants[0]])
TargetSend(t) ==
    /\ tpc[t] = "send"
    /\ variables' = [variables EXCEPT ![t].output_msg = pickle_dumps(output_msg[t])]
    /\ tpc' = [tpc EXCEPT ![t] = TargetAfter("send")]
    /\ UNCHANGED <<launcherVars, pushOnlyVars>>
    /\ UNCHANGED <<use_ephemeral_flow, proto_participants, ipc, runs, input_msg_b, output_msg_b, input_msg,
                   output_msg, target_storage, subscriptions, storage>>

NextProtocol ==
    \/ \E t \in ProtoTasks, roles \in RoleLists : StarterRunTask(t, roles)
    \/ \E t \in ProtoTasks : StarterWriteInput(t)
    \/ \E t \in ProtoTasks : DuplicateRun(t)
    \/ \E t \in ProtoTasks : InitiatorReadInput(t)
    \/ \E t \in ProtoTasks : InitiatorSend(t)
    \/ \E t \in ProtoTasks : InitiatorRecv(t)
    \/ \E t \in ProtoTasks : InitiatorStoreOutput(t)
    \/ \E t \in ProtoTasks : TargetSubscribe(t)
    \/ \E t \in ProtoTasks : TargetRecv(t)
    \/ \E t \in ProtoTasks : TargetForward(t)
    \/ \E a \in UnitAnswers : WorkerServe(a)
    \/ \E t \in ProtoTasks : TargetReadOutput(t)
    \/ \E t \in ProtoTasks, a \in UnitAnswers, md \in BOOLEAN, cmd \in BOOLEAN :
          TargetCallEphemeral(t, a, md, cmd)
    \/ \E t \in ProtoTasks : TargetSend(t)

(* ========================== specifications =========================== *)

\* the launcher at rest, for the behaviours of the other parts
LauncherAtRest ==
    /\ InitLauncher
    /\ n_independent_samples = 1
    /\ fault_tolerant_mode
    /\ n_batch_retries = 1

\* the protocol at rest, for the behaviours of the other parts
ProtocolAtRest == InitProtocol /\ ~use_ephemeral_flow

\* the batch launcher runs; nothing is pushed
InitSpecLauncher == InitLauncher /\ InitPush /\ ProtocolAtRest
SpecLauncher == InitSpecLauncher /\ [][NextLauncher]_vars

\* the same under fair scheduling of the worker threads: a thread that can
\* take a step is not held back for ever, and every call of the flow returns
\* or raises
SpecLauncherFair == SpecLauncher /\ WF_vars(NextLauncher)

\* callers push invocations and read their futures
InitSpecPush == LauncherAtRest /\ InitPush /\ ProtocolAtRest
SpecPush == InitSpecPush /\ [][NextPush]_vars

\* task starters run tasks of the simple-invoke protocol
InitSpecProtocol == LauncherAtRest /\ InitPush /\ InitProtocol
SpecProtocol == InitSpecProtocol /\ [][NextProtocol]_vars

\* the same under fair scheduling: a handler, starter or worker that can take
\* a step is not held back for ever
SpecProtocolFair == SpecProtocol /\ WF_vars(NextProtocol)

(* ------------------- properties of the batch launcher ----------------- *)

\* the indices of the history entries of one kind
EvAt(h, kinds) == {i \in 1..Len(h) : h[i].ev \in kinds}

\* the invocations of the flow made in repetition rep
InvokesOf(h, rep) == {i \in EvAt(h, {"invoke", "invoke_dirty"}) : h[i].rep = rep}
FailsOf(h, rep) == {i \in EvAt(h, {"fail"}) : h[i].rep = rep}
OksOf(h, rep) == {i \in EvAt(h, {"ok"}) : h[i].rep = rep}
SleepsOf(h, rep) == {i \in EvAt(h, {"sleep"}) : h[i].rep = rep}

\* the records written for the sample of call c, over all output files
RecordsOf(c) ==
    {<<s, i>> \in Slots \X (1..NumCalls) : i <= Len(output_files[s]) /\ output_files[s][i].id = c}
RecordAt(si) == output_files[si[1]][si[2]]

\* the calls that run with a slot id taken from the pool
Holding == {c \in Calls : pc[c] \notin {"call", "done", "raised"}}

\* the calls whose _resource_id is bound (from get() to the end of predict;
\* a call that raised never gave it back)
Bound(c) == pc[c] \notin {"call", "done"}

\* the calls that are inside the flow of their slot, or about to reset it
InFlow(s) == {c \in Calls : pc[c] \in {"try", "else_call", "check"} /\ resource_id[c] = s}

\* the history entries at which a repetition used up its retry budget: the
\* attempt numbered n_batch_retries failed
Exhausted(h) == {i \in EvAt(h, {"fail"}) : h[i].att = n_batch_retries}

\* C5: at most one worker holds a given slot id at a time, so the flow of a
\* slot is never invoked or reset by two workers at once.
C5_OneWorkerPerSlot ==
    /\ \A c1, c2 \in Calls :
          (c1 # c2 /\ Bound(c1) /\ Bound(c2)) => resource_id[c1] # resource_id[c2]
    /\ \A s \in Slots : Cardinality(InFlow(s)) <= 1
    /\ \A c \in Calls : Bound(c) =>
          \A i \in 1..Len(resource_IDs) : resource_IDs[i] # resource_id[c]

\* a worker is inside the flow of a slot that another worker used and gave
\* back, while a third party waits
C5_Witness ==
    \E c1, c2 \in Calls :
        /\ pc[c1] = "done"
        /\ pc[c2] \in {"try", "else_call"}

\* C6: fault-tolerant, n_batch_retries >= 1: a repetition invokes the flow at
\* most n_batch_retries times and stops at the first success; a success at
\* attempt k appends exactly one output and leaves the error null; when all
\* attempts fail nothing is appended and the error is the last failure's.
C6_RetryBudget ==
    (fault_tolerant_mode /\ n_batch_retries >= 1) =>
      \A c \in Calls :
        LET h == hist[c]
            r == sample_idx[c]
            inv == InvokesOf(h, r)
            oks == OksOf(h, r)
            fails == FailsOf(h, r)
        IN  /\ Cardinality(inv) <= n_batch_retries
            /\ Cardinality(oks) <= 1
            /\ \A i \in oks : \A j \in inv : j < i
            /\ pc[c] = "check" =>
                 \/ /\ Cardinality(oks) = 1
                    /\ Cardinality(fails) = Cardinality(inv) - 1
                    /\ error[c] = None
                    /\ Len(inference_outputs[c]) = r + 1
                    /\ inference_outputs[c][r + 1] = OutputData(r)
                    /\ Len(human_readable_outputs[c]) = r + 1
                 \/ /\ oks = {}
                    /\ Cardinality(inv) = n_batch_retries
                    /\ Cardinality(fails) = n_batch_retries
                    /\ error[c] = StrE(r, n_batch_retries)
                    /\ Len(inference_outputs[c]) = r
                    /\ Len(human_readable_outputs[c]) = r

\* a repetition failed on its first attempt and succeeded on a later one
C6_Witness ==
    /\ fault_tolerant_mode
    /\ \E c \in Calls :
        /\ pc[c] = "check"
        /\ FailsOf(hist[c], sample_idx[c]) # {}
        /\ OksOf(hist[c], sample_idx[c]) # {}

\* C7: fault-tolerant: no invocation error leaves predict, and exactly one
\* record of the sample is written, with a non-null error iff some
\* repetition used up its retry budget.
C7_AlwaysOneRecord ==
    fault_tolerant_mode =>
      \A c \in Calls :
        /\ pc[c] # "raised"
        /\ pc[c] \in {"put", "done"} => Cardinality(RecordsOf(c)) = 1
        /\ pc[c] \notin {"put", "done"} => RecordsOf(c) = {}
        /\ pc[c] = "put" =>
              \A si \in RecordsOf(c) :
                  (RecordAt(si).error # None) <=> (Exhausted(hist[c]) # {})

\* a record with an error was written and predict is about to return
C7_Witness ==
    /\ fault_tolerant_mode
    /\ \E c \in Calls :
        /\ pc[c] = "put"
        /\ Exhausted(hist[c]) # {}
        /\ \E si \in RecordsOf(c) : RecordAt(si).error # None

\* C8: not fault-tolerant: a repetition makes exactly one attempt; when it
\* raises, the error leaves predict at once: no retry, no sleep, no record.
C8_FailFast ==
    (~fault_tolerant_mode) =>
      \A c \in Calls :
        LET h == hist[c]
        IN  /\ \A r \in 0..(MaxSamples + 1) : Cardinality(InvokesOf(h, r)) <= 1
            /\ EvAt(h, {"sleep"}) = {}
            /\ pc[c] = "check" => Cardinality(InvokesOf(h, sample_idx[c])) = 1
            /\ EvAt(h, {"fail"}) # {} =>
                  /\ pc[c] = "raised"
                  /\ h[Len(h)].ev = "fail"
                  /\ RecordsOf(c) = {}

\* the single attempt of a repetition raised and the error left predict
C8_Witness ==
    /\ ~fault_tolerant_mode
    /\ \E c \in Calls : pc[c] = "raised" /\ EvAt(hist[c], {"fail"}) # {}

\* C9: when a repetition fails terminally the flow is not invoked again for
\* the sample, and the record holds exactly the outputs of the earlier,
\* successful repetitions and the terminal error.
C9_PartialOutputsKept ==
    fault_tolerant_mode =>
      \A c \in Calls :
        LET h == hist[c]
        IN  \A i \in Exhausted(h) :
              /\ \A j \in EvAt(h, {"invoke", "invoke_dirty"}) : j < i
              /\ \A q \in 0..(h[i].rep - 1) : \E j \in EvAt(h, {"rep_ok"}) : h[j].rep = q
              /\ pc[c] = "put" =>
                    \A si \in RecordsOf(c) :
                      /\ RecordAt(si).inference_outputs =
                            [q \in 1..h[i].rep |-> OutputData(q - 1)]
                      /\ RecordAt(si).human_readable_outputs =
                            [q \in 1..h[i].rep |-> output_interface(OutputData(q - 1))]
                      /\ RecordAt(si).error = StrE(h[i].rep, n_batch_retries)

\* the second repetition failed terminally after the first one succeeded,
\* and the record is written
C9_Witness ==
    /\ fault_tolerant_mode
    /\ \E c \in Calls :
        /\ pc[c] = "put"
        /\ \E i \in Exhausted(hist[c]) : hist[c][i].rep >= 1
        /\ \E si \in RecordsOf(c) : Len(RecordAt(si).inference_outputs) >= 1

\* C10: a predict call that ended after a terminal failure has put its slot
\* id back, so the free and the held slot ids are always all the slot ids.
C10_SlotsConserved ==
    /\ Len(resource_IDs) + Cardinality(Holding) = NumSlots
    /\ \A c \in Calls : pc[c] = "raised" =>
          \E i \in 1..Len(resource_IDs) : resource_IDs[i] = resource_id[c]

(* ------------- properties of push_to_flow and FlowFuture -------------- *)

\* the invocations that have entered push_to_flow
Pushed == {p \in Pushes : push_pc[p] # "idle"}

\* the invocation whose id a task's parameter carries
PushOf(t) == CHOOSE p \in Pushed : push_msg_id[p] = MessageIdOf(t.param)

\* the invocation a response (the message, or its output data) was written for
WrittenFor(x) == IF x[1] = "OutputMessage" THEN x[2][2] ELSE x[2]

\* C1: push_tasks:<X>:msg is created before run_task is called for X: every
\* task spawned, and so every handler started, for message_id X finds X's
\* message entry in the storage.
C1_MessageStoredBeforeTask ==
    /\ \A t \in tasks :
          LET key == MsgKey(MessageIdOf(t.param))
          IN  /\ HasEntry(storage, key)
              /\ deserialize(storage[key]) = push_args[PushOf(t)][3]
    /\ \A h \in started :
          read_entry(storage, MsgKey(MessageIdOf(h[1].param))) # None

\* a handler of a spawned task has started
C1_Witness ==
    \E h \in started : HasEntry(storage, MsgKey(MessageIdOf(h[1].param)))

\* C2: the participant list depends on the target identity alone: the caller
\* as receiver for the sentinel "local" or the caller's own identity, and
\* otherwise the caller as initiator followed by the target as receiver;
\* run_task gets no other list.
C2_ParticipantRoles ==
    /\ \A p \in Pushed :
          LET target == push_args[p][1]
          IN  /\ target \in {"local", Caller} =>
                    participants[p] = << <<Caller, "receiver">> >>
              /\ target \notin {"local", Caller} =>
                    participants[p] = << <<Caller, "initiator">>, <<target, "receiver">> >>
    /\ \A t \in tasks :
          LET target == push_args[PushOf(t)][1]
          IN  t.participants =
                IF target \in {"local", Caller}
                  THEN << <<Caller, "receiver">> >>
                  ELSE << <<Caller, "initiator">>, <<target, "receiver">> >>

\* one task was spawned for the caller's own identity and one for another
C2_Witness ==
    \E t1, t2 \in tasks :
        /\ push_args[PushOf(t1)][1] = Caller
        /\ push_args[PushOf(t2)][1] \notin {"local", Caller}

\* C3: two distinct invocations have different ids, message keys and
\* response keys, and try_get and get on the future of one never return the
\* response written for the other.
C3_InvocationsIsolated ==
    /\ \A p1, p2 \in Pushed : p1 # p2 =>
          /\ push_msg_id[p1] # push_msg_id[p2]
          /\ MsgKey(push_msg_id[p1]) # MsgKey(push_msg_id[p2])
          /\ ResponseKey(push_msg_id[p1]) # ResponseKey(push_msg_id[p2])
          /\ (colink_storage_key[p1] # None /\ colink_storage_key[p2] # None)
                => colink_storage_key[p1] # colink_storage_key[p2]
    /\ \A p \in Pushed :
          future_result[p] # None => WrittenFor(future_result[p]) = push_msg_id[p]

\* both responses are written and each caller has read its own
C3_Witness ==
    \E p1, p2 \in Pushed :
        /\ p1 # p2
        /\ HasEntry(storage, ResponseKey(push_msg_id[p1]))
        /\ HasEntry(storage, ResponseKey(push_msg_id[p2]))
        /\ future_result[p1] # None
        /\ future_result[p2] # None

(* ==================== properties of the Future, continued ==================== *)

\* the output data of the response stored for invocation p: the entry's bytes
\* hold the message, the message holds its output data
EntryOutputData(p) ==
    LET message == storage[ResponseKey(push_msg_id[p])][2]
    IN  message[2]

\* a try_get or get of invocation p's Future returns in this step
FutureReturns(p) ==
    \/ future_call'[p] # future_call[p]
    \/ future_result'[p] # future_result[p]

Unanswered == {p \in Pushes : /\ colink_storage_key[p] # None
                              /\ ~HasEntry(storage, colink_storage_key[p])}

\* C14: while the response entry of a Future is not written, and so for good
\* when it never is, every try_get returns None, without an error, and no get
\* returns.
C14_AbsentResponse ==
    \A p \in Unanswered :
        /\ future_call[p] \in {"none", "try_get"}
        /\ future_result[p] = None

\* the task was spawned, none of its handlers runs, and try_get has returned
\* None
C14_Witness ==
    \E p \in Unanswered :
        /\ future_call[p] = "try_get"
        /\ future_result[p] = None
        /\ \E t \in tasks : MessageIdOf(t.param) = push_msg_id[p]
        /\ \A h \in started : MessageIdOf(h[1].param) # push_msg_id[p]


\* C15: a successful push returns a Future whose response key is derived from
\* the invocation id of the stored message key and of the message_id in the
\* spawned task's parameter.
C15_PushReturnsFuture ==
    \A p \in Pushes :
        push_pc[p] = "returned" =>
            /\ push_result[p][1] = "FlowFuture"
            /\ push_result[p][2] = ResponseKey(push_msg_id[p])
            /\ HasEntry(storage, MsgKey(push_msg_id[p]))
            /\ \E t \in tasks : MessageIdOf(t.param) = push_msg_id[p]


\* the invocations whose push_to_flow ended with no task spawned for them
Unspawned ==
    {p \in Pushes : /\ push_pc[p] \notin {"idle", "running"}
                    /\ \A t \in tasks : MessageIdOf(t.param) # push_msg_id[p]}

\* C16: when the substrate rejects run_task, push_to_flow raises to its caller
\* and returns nothing, so there is no Future; no task is spawned; and the
\* message entry stored for the invocation stays as it was written.
C16_RejectedPush ==
    \A p \in Unspawned :
        /\ push_pc[p] = "raised"
        /\ push_result[p] = None
        /\ colink_storage_key[p] = None
        /\ PushSteps[push_step[p]] = "run_task" =>
              /\ HasEntry(storage, MsgKey(push_msg_id[p]))
              /\ deserialize(storage[MsgKey(push_msg_id[p])]) = push_args[p][3]

\* run_task was rejected after the message entry was stored
C16_Witness ==
    \E p \in Unspawned :
        /\ push_pc[p] = "raised"
        /\ PushSteps[push_step[p]] = "run_task"
        /\ HasEntry(storage, MsgKey(push_msg_id[p]))


(* ================= properties of the simple-invoke protocol ================= *)

\* the output keys of the tasks
OutputKeys == {OutputKey(TargetFlowQueue, t) : t \in ProtoTasks}

\* C4: the output entry of an invocation is written at most once: no step,
\* a later write attempt of a duplicate run of the initiator included, removes
\* or changes the value first stored under the invocation's output key.
C4_OutputWrittenOnce ==
    [][\A k \in OutputKeys :
          HasEntry(storage, k) => HasEntry(storage', k) /\ storage'[k] = storage[k]]_vars

\* a duplicate run of the initiator came to its write with another output
\* than the one stored, and the write was refused
C4_Witness ==
    \E t \in ProtoTasks :
        /\ runs[t] >= 2
        /\ ipc[t] = "raised"
        /\ HasEntry(storage, OutputKey(TargetFlowQueue, t))
        /\ output_msg_b[t] # storage[OutputKey(TargetFlowQueue, t)]

(* ================== properties of the launcher, continued ================== *)

\* the call is inside flow(input_message)
Invoking(c) == pc[c] \in {"try", "else_call"}

\* C11: between two repetitions of a sample the flow is reset: whenever a call
\* holds a slot, and so whenever a later repetition invokes the flow, the
\* flow's state holds no mutation made by an earlier repetition of that call.
C11_RepetitionsIndependent ==
    \A c \in Calls :
        Bound(c) =>
            \A mark \in flow_state[resource_id[c]] :
                mark[1] = c => mark[2] = sample_idx[c]

\* a second repetition is inside the flow after the first one succeeded and
\* the flow was reset
C11_Witness ==
    \E c \in Calls :
        /\ Invoking(c)
        /\ sample_idx[c] >= 1
        /\ EvAt(hist[c], {"reset"}) # {}
        /\ Len(inference_outputs[c]) = sample_idx[c]

\* the updates of the target unit's work queue that its worker has not served
PendingWork == subscriptions[WorkQueueKey(TargetFlowQueue)]

\* C12: in queue-relay submode the response subscription exists before the
\* input is forwarded, so no completion notification is lost: while the
\* target waits, the worker has yet to serve the forwarded input or its
\* notification is in the target's subscription.
C12_NoLostResponse ==
    \A t \in ProtoTasks :
        tpc[t] = "wait" =>
            LET name == ResponseQueueName(TargetFlowQueue, t)
            IN  /\ name \in DOMAIN subscriptions
                /\ \/ Len(subscriptions[name]) > 0
                   \/ \E i \in 1..Len(PendingWork) : pickle_loads(PendingWork[i])[3] = name

\* the worker has published its notification and the waiting target has it
\* in its subscription
C12_Witness ==
    \E t \in ProtoTasks :
        /\ ~use_ephemeral_flow
        /\ tpc[t] = "wait"
        /\ PendingWork = <<>>
        /\ Len(subscriptions[ResponseQueueName(TargetFlowQueue, t)]) > 0

\* the tasks whose input entry the task starter has written
WithInput == {t \in ProtoTasks : HasEntry(storage, InputKey(TargetFlowQueue, t))}

\* the input the task starter wrote for task t
StarterInput(t) == pickle_loads(storage[InputKey(TargetFlowQueue, t)])

\* what the target of task t has to forward: the starter's input with the
\* name of t's response queue as its tag
Tagged(t) == Msg(StarterInput(t)[2], ResponseQueueName(TargetFlowQueue, t))

\* C17: the initiator reads the input entry, sends the input to the target,
\* receives the target's output and stores the output entry, in this order;
\* the stored bytes are the bytes the target sent; and what the target
\* forwards to the work queue is the starter's input with the
\* response_queue_name tag added and nothing else changed.
C17_RelayFaithful ==
    /\ \A t \in ProtoTasks :
          /\ ipc[t] \in {"send", "recv", "store", "done"} =>
                /\ HasEntry(storage, InputKey(TargetFlowQueue, t))
                /\ input_msg_b[t] = storage[InputKey(TargetFlowQueue, t)]
          /\ ipc[t] \in {"recv", "store", "done"} =>
                variables[t].input_msg = storage[InputKey(TargetFlowQueue, t)]
          /\ ipc[t] \in {"store", "done"} =>
                /\ variables[t].output_msg # None
                /\ output_msg_b[t] = variables[t].output_msg
          /\ ipc[t] = "done" =>
                /\ HasEntry(storage, OutputKey(TargetFlowQueue, t))
                /\ storage[OutputKey(TargetFlowQueue, t)] = variables[t].output_msg
          /\ tpc[t] = "wait" => input_msg[t] = Tagged(t)
    /\ \A i \in 1..Len(PendingWork) :
          \E t \in WithInput : PendingWork[i] = pickle_dumps(Tagged(t))
    /\ HasEntry(target_storage, WorkQueueKey(TargetFlowQueue)) =>
          \E t \in WithInput :
              target_storage[WorkQueueKey(TargetFlowQueue)] = pickle_dumps(Tagged(t))

\* the output went from the worker through the target to the output entry
C17_Witness ==
    \E t \in ProtoTasks :
        /\ ~use_ephemeral_flow
        /\ ipc[t] = "done"
        /\ tpc[t] = "done"
        /\ HasEntry(target_storage, WorkQueueKey(TargetFlowQueue))
        /\ storage[OutputKey(TargetFlowQueue, t)] = pickle_dumps(output_msg[t])

(* ============================ end to end ============================ *)

\* C18: for an invocation submitted through push_to_flow and handled by the
\* simple-invoke protocol, every role push_to_flow assigns is one the protocol
\* has a handler for, and the entry in which the protocol stores the target's
\* output is the response entry that the invocation's Future reads (so that
\* get returns the output once the target has replied).
C18_PushMeetsProtocol ==
    /\ \A t \in tasks :
          \A i \in 1..Len(t.participants) :
              HandlerName(t.protocol, t.participants[i][2]) \in Handled
    /\ \A p \in Pushes :
          colink_storage_key[p] # None =>
              \E task_id \in ProtoTasks :
                  OutputKey(push_args[p][2], task_id) = colink_storage_key[p]

\* the tasks of purely local invocations: the target is the one participant
LocalTasks == {t \in ProtoTasks : proto_participants[t] = <<"target-flow">>}

\* C19: in a purely local invocation no initiator handler runs, and the target
\* handler still receives its input, produces an output and sends it back:
\* under fair scheduling the handler ends instead of waiting in recv_variable
\* for ever.
C19_LocalInvocationEnds ==
    \A t \in ProtoTasks : (t \in LocalTasks) ~> (tpc[t] = "done")

\* C20: in ephemeral submode the target handler makes no response
\* subscription and writes no work-queue entry: the subscriptions and the
\* target's storage stay as they were before the task, and from receiving the
\* input to sending the output the handler only calls the fresh flow.
C20_EphemeralFrame ==
    use_ephemeral_flow =>
        /\ target_storage = <<>>
        /\ DOMAIN subscriptions = {WorkQueueKey(TargetFlowQueue)}
        /\ PendingWork = <<>>
        /\ \A t \in ProtoTasks : tpc[t] \in {"idle", "recv", "call", "send", "done", "raised"}

\* in ephemeral submode a target handler has called the flow and sent its
\* output
C20_Witness ==
    \E t \in ProtoTasks :
        /\ use_ephemeral_flow
        /\ tpc[t] = "done"
        /\ variables[t].output_msg = pickle_dumps(output_msg[t])

(* ======================= further properties ======================= *)

\* C21: in ephemeral submode, whatever keys the data of the flow's output
\* has, the handler does not fail before the send, and the output it hands
\* to send_variable carries the snapshot of the flow's state in its
\* colink_meta_data.
C21_EphemeralSnapshot ==
    use_ephemeral_flow =>
        \A t \in ProtoTasks :
            /\ tpc[t] # "raised"
            /\ tpc[t] = "send" => (output_msg[t][3] # None /\ output_msg[t][3][1] = "state")

\* C22: the launcher sleeps only between attempts: whenever a call is in
\* time.sleep, the repetition has another attempt to make.
C22_SleepOnlyBetweenAttempts ==
    \A c \in Calls :
        pc[c] = "sleep" => attempt_idx[c] <= n_batch_retries

\* C24: every attempt starts from a reset flow: no invocation finds state in
\* the flow, and the flow of a slot id that is in the pool is in its reset
\* state.
C24_AttemptsStartReset ==
    /\ \A c \in Calls : EvAt(hist[c], {"invoke_dirty"}) = {}
    /\ \A i \in 1..Len(resource_IDs) :
          /\ ~flow_dirty[resource_IDs[i]]
          /\ flow_state[resource_IDs[i]] = {}

\* the slot id is in the pool of free ids
InPool(id) == \E i \in 1..Len(resource_IDs) : resource_IDs[i] = id

\* C23 (as the code has it): the record of the sample is written to the
\* output file of the slot before the slot id is put back: a call that is
\* about to write, or has just written, still holds its slot id, and a call
\* that is about to put the id back has written its record.
C23_PersistBeforeRelease ==
    \A c \in Calls :
        /\ pc[c] \in {"finalize", "put"} => ~InPool(resource_id[c])
        /\ pc[c] = "put" => RecordsOf(c) # {}
        /\ pc[c] = "finalize" => RecordsOf(c) = {}

\* a call has written its record and still holds its slot id
C23_Witness ==
    \E c \in Calls :
        /\ pc[c] = "put"
        /\ RecordsOf(c) # {}
        /\ ~InPool(resource_id[c])

\* C23 (as stated): the slot id is released back to the pool before the
\* records are persisted: when the record of a call is written, its slot id
\* is in the pool.
C23_ReleaseBeforePersist ==
    \A c \in Calls :
        (Bound(c) /\ RecordsOf(c) # {}) => InPool(resource_id[c])

\* the tasks that relay through the target unit's work queue: initiator and
\* target take part, in queue-relay submode
Relayed ==
    {t \in ProtoTasks :
        ~use_ephemeral_flow /\ proto_participants[t] = <<"initiator", "target-flow">>}

\* the updates of the work queue that carry the tag of task t and that the
\* worker has yet to serve
WorkFor(t) ==
    {i \in 1..Len(PendingWork) :
        pickle_loads(PendingWork[i])[3] = ResponseQueueName(TargetFlowQueue, t)}

\* the notifications in the response subscription of task t
ResponsesOf(t) ==
    IF ResponseQueueName(TargetFlowQueue, t) \in DOMAIN subscriptions
      THEN subscriptions[ResponseQueueName(TargetFlowQueue, t)]
      ELSE <<>>

\* the input an output payload was computed from
InputOf(payload) == payload[2]

\* every forwarded input is seen by the worker once, and an output reaches
\* the subscription and the target of its own task only
C25_Separate ==
    /\ \A i \in 1..Len(PendingWork) :
          \E t \in ProtoTasks :
              /\ i \in WorkFor(t)
              /\ pickle_loads(PendingWork[i])[2] = <<"goal", t>>
    /\ \A t \in ProtoTasks :
          /\ \A i \in 1..Len(ResponsesOf(t)) :
                InputOf(pickle_loads(ResponsesOf(t)[i])[2]) = <<"goal", t>>
          /\ tpc[t] = "wait" => Cardinality(WorkFor(t)) + Len(ResponsesOf(t)) = 1
          /\ (~use_ephemeral_flow /\ tpc[t] \in {"send", "done"}) =>
                /\ InputOf(output_msg[t][2]) = <<"goal", t>>
                /\ WorkFor(t) = {}
                /\ ResponsesOf(t) = <<>>

PoolFull ==
    /\ Len(resource_IDs) = NumSlots
    /\ \A s \in Slots : InPool(s)

\* C26: in fault-tolerant mode, with more concurrent predict calls than
\* slots, no call ends with an exception, and under fair scheduling every
\* call gets a slot and completes, after which the pool holds all the slot
\* ids again.
C26_AllCallsComplete ==
    /\ [](fault_tolerant_mode => \A c \in Calls : pc[c] # "raised")
    /\ fault_tolerant_mode ~> (PoolFull /\ \A c \in Calls : pc[c] = "done")

\* in fault-tolerant mode all the calls, more than there are slots, have
\* completed, one of them after its retries were used up, and the pool is
\* full
C26_Witness ==
    /\ fault_tolerant_mode
    /\ NumCalls > NumSlots
    /\ \A c \in Calls : pc[c] = "done"
    /\ PoolFull
    /\ \E c \in Calls : \E si \in RecordsOf(c) : RecordAt(si).error # None

====
